---- MODULE Spec2Model ----
(***************************************************************************)
(* Model of the BCMS image pre-processing pipeline                         *)
(* (src/preprocess_images.py): detect_card_region, _order_points,          *)
(* adjust_gamma, preprocess_image and the batch driver main.               *)
(*                                                                         *)
(* OpenCV / Pillow calls are library code.  What they return is an input   *)
(* of the model: an opened file is a shape (h, w) plus the list of         *)
(* contours cv2.findContours yields on it; a contour is its contourArea,   *)
(* its approxPolyDP polygon, its minAreaRect box points and its            *)
(* boundingRect.  An image buffer is its shape, the part of the source it  *)
(* shows (view) and the list of operations applied to it (ops); the        *)
(* library operations are deterministic functions of their arguments.      *)
(* Coordinates are integer pixels; all shapes are <= 3000 x 2000, where    *)
(* the float32 norms of the code are exact to the integer part.            *)
(*                                                                         *)
(* main runs against a file system and Supabase.  Both are environment:    *)
(* whether cv2.imwrite succeeds and whether a Supabase call raises is a    *)
(* free choice at each call; what main did to them is recorded in disk     *)
(* and supabase.                                                           *)
(***************************************************************************)
EXTENDS Integers, Sequences, FiniteSets, TLC

----------------------------------------------------------------------------
(* Bounds of the model *)

MaxContours == 2
MaxCalls == 3
MaxInputs == 2
MaxPasses == 2
GridMax == 2

----------------------------------------------------------------------------
(* State *)

VARIABLES
    pc,              \* position in preprocess_image
    calls,           \* invocations completed
    raw,             \* the file of the current invocation
    min_size,        \* its min_size argument
    image,           \* local image
    crop_info,       \* local crop_info
    log,             \* the passes of detect_card_region's loop
    original_shape,  \* local original_shape
    scale_factor,    \* local scale_factor
    metadata,        \* the caller's process_info: the metadata last returned
    first,           \* history: the first invocation and what it gave
    between,         \* history: another input was processed since the first
    op_pts,          \* argument of a direct call of _order_points
    op_rect,         \* its result
    lut_in,          \* a pixel value given to the table of adjust_gamma
    lut_out,         \* what cv2.LUT gives for it
    m_pc,            \* position in main
    args,            \* main: the parsed command line
    image_paths,     \* main: the collected paths
    idx,             \* main: the loop index
    repo,            \* main: a SupabaseRepository was made and the project ensured
    m_calls,         \* main: the paths preprocess_image was called on
    disk,            \* the file system: what main created and wrote
    supabase,        \* the Supabase operations made, in order
    manifest_entries,\* main: manifest_entries
    outcome,         \* how the process ended
    g_pc,            \* position in generate_summary_fields / call_gemini_summary
    gemini_model,    \* its gemini_model argument: TRUE for a model, FALSE for None
    max_retries,     \* the value of MAX_GEMINI_RETRIES
    base_delay,      \* the value of GEMINI_RETRY_BASE_DELAY
    attempt,         \* call_gemini_summary: the loop variable
    response,        \* call_gemini_summary: local response
    requests,        \* what each model.generate_content call did, in order
    sleeps,          \* the arguments of the time.sleep calls, in order
    call_result,     \* what call_gemini_summary returned or raised
    summary,         \* what generate_summary_fields returned or raised
    i_pc,            \* position in insert_result_fields
    i_args,          \* its arguments
    rows,            \* its local rows
    i_start,         \* its loop variable start
    inserts          \* the chunks given to insert(...).execute(), in order

vars == << pc, calls, raw, min_size, image, crop_info, log, original_shape,
           scale_factor, metadata, first, between, op_pts, op_rect,
           lut_in, lut_out, m_pc, args, image_paths, idx, repo, m_calls, disk,
           supabase, manifest_entries, outcome, g_pc, gemini_model,
           max_retries, base_delay, attempt, response, requests, sleeps,
           call_result, summary, i_pc, i_args, rows, i_start, inserts >>

locals == << image, crop_info, log, original_shape, scale_factor >>

orderVars == << op_pts, op_rect >>

gammaVars == << lut_in, lut_out >>

mainVars == << m_pc, args, image_paths, idx, repo, m_calls, disk, supabase,
              manifest_entries, outcome >>

pipelineVars == << pc, calls, raw, min_size, locals, metadata, first, between >>

geminiVars == << g_pc, gemini_model, max_retries, base_delay, attempt, response,
                requests, sleeps, call_result, summary >>

insertVars == << i_pc, i_args, rows, i_start, inserts >>

serviceVars == << geminiVars, insertVars >>

\* what preprocess_image never touches
outside == << orderVars, gammaVars, mainVars, serviceVars >>

----------------------------------------------------------------------------
(* Arithmetic helpers *)

Min2(a, b) == IF a <= b THEN a ELSE b
Max2(a, b) == IF a >= b THEN a ELSE b

RECURSIVE Pow2(_)
Pow2(n) == IF n = 0 THEN 1 ELSE 2 * Pow2(n - 1)

\* floor(log2(num/den)) for num >= den >= 1
RECURSIVE FloorLog2(_, _)
FloorLog2(num, den) == IF num < 2 * den THEN 0 ELSE 1 + FloorLog2(num, 2 * den)

\* (b * 2^k) mod s, thirteen bits at a time (s < 2^18)
RECURSIVE ShiftMod(_, _, _)
ShiftMod(b, k, s) ==
    IF k = 0 THEN b % s
    ELSE IF k >= 13 THEN ShiftMod((8192 * (b % s)) % s, k - 13, s)
    ELSE ShiftMod((2 * (b % s)) % s, k - 1, s)

\* integer square root, floor(sqrt(n))
RECURSIVE IsqrtFrom(_, _, _)
IsqrtFrom(n, lo, hi) ==
    IF lo >= hi THEN lo
    ELSE LET mid == (lo + hi + 1) \div 2
         IN  IF mid * mid <= n THEN IsqrtFrom(n, mid, hi) ELSE IsqrtFrom(n, lo, mid - 1)

Isqrt(n) == IsqrtFrom(n, 0, 4000)

CeilDiv(a, b) == (a + b - 1) \div b

----------------------------------------------------------------------------
(* IEEE-754 double arithmetic of the resize step, on integers.             *)
(* scale = min_size / short_side is the correctly rounded quotient m/s;    *)
(* d * scale is the correctly rounded product.  For the sizes of the model *)
(* the product differs from the exact d*m/s by far less than 1/s, so the   *)
(* ceiling differs from the exact one only when d*m/s is an integer q and  *)
(* the product is rounded to a double above q.                             *)

\* the quotient m/s was rounded up: the remainder of m*2^k by s is above s/2,
\* k = 52 - floor(log2(m/s)) the scaling of the 53-bit mantissa
DivRoundedUp(m, s) == 2 * ShiftMod(m, 52 - FloorLog2(m, s), s) > s

\* the double d * fl(m/s) is above the integer q = d*m/s: the error
\* d * (s - rem) / (s * 2^k) exceeds half an ulp of q
ProductAbove(d, m, s) ==
    LET a   == FloorLog2(m, s)
        rem == ShiftMod(m, 52 - a, s)
        q   == (d * m) \div s
        j   == FloorLog2(q, 1)
    IN  /\ DivRoundedUp(m, s)
        /\ Pow2(a + 1) * d * (s - rem) > s * Pow2(j)

\* variant: int(x) + 1 taken for the ceiling
CeilTimesScaleNaive(d, m, s) == (d * m) \div s + 1

\* math.ceil(d * scale), scale = m / s as a double, for m > s >= 1
CeilTimesScale(d, m, s) ==
    IF (d * m) % s # 0 THEN CeilDiv(d * m, s)
    ELSE IF ProductAbove(d, m, s) THEN (d * m) \div s + 1 ELSE (d * m) \div s

\* a scale factor is the double nearest to num/den; 1.0 is <<1, 1>>
ScaleOne == <<1, 1>>

\* variant: round(float(scale_factor), 2), in the same units
Round2(sf) == 100 * ((200 * sf[1] + sf[2]) \div (2 * sf[2]))

\* round(float(scale_factor), 4), in units of 1/10000 (no quotient of the
\* model's sizes lies on a rounding tie)
Round4(sf) == (20000 * sf[1] + sf[2]) \div (2 * sf[2])

----------------------------------------------------------------------------
(* _order_points *)

\* np.argmin / np.argmax: the first index of the extreme value
ArgMin(v) == CHOOSE i \in DOMAIN v :
                /\ \A j \in DOMAIN v : v[i] <= v[j]
                /\ \A j \in DOMAIN v : j < i => v[j] > v[i]

ArgMax(v) == CHOOSE i \in DOMAIN v :
                /\ \A j \in DOMAIN v : v[i] >= v[j]
                /\ \A j \in DOMAIN v : j < i => v[j] < v[i]

\* pts.sum(axis=1): x + y of each row
RowSum(pts) == [i \in DOMAIN pts |-> pts[i][1] + pts[i][2]]

\* variant: first column minus second column, x - y
RowDiffReversed(pts) == [i \in DOMAIN pts |-> pts[i][1] - pts[i][2]]

\* np.diff(pts, axis=1): second column minus first column, y - x
RowDiff(pts) == [i \in DOMAIN pts |-> pts[i][2] - pts[i][1]]

\* variant: the sums and the differences taken for each other
_order_points_mixed(pts) ==
    << pts[ArgMin(RowDiff(pts))],
       pts[ArgMin(RowSum(pts))],
       pts[ArgMax(RowDiff(pts))],
       pts[ArgMax(RowSum(pts))] >>

\* rect = <<top-left, top-right, bottom-right, bottom-left>>
_order_points(pts) ==
    << pts[ArgMin(RowSum(pts))],
       pts[ArgMin(RowDiff(pts))],
       pts[ArgMax(RowSum(pts))],
       pts[ArgMax(RowDiff(pts))] >>

----------------------------------------------------------------------------
(* detect_card_region *)

\* int(np.linalg.norm(p - q)) is the integer square root of Dist2(p, q)
Dist2(p, q) == (p[1] - q[1]) * (p[1] - q[1]) + (p[2] - q[2]) * (p[2] - q[2])

\* width = int(max(width_top, width_bottom))
QuadWidth(rect) == Isqrt(Max2(Dist2(rect[2], rect[1]), Dist2(rect[3], rect[4])))

\* height = int(max(height_left, height_right))
QuadHeight(rect) == Isqrt(Max2(Dist2(rect[4], rect[1]), Dist2(rect[3], rect[2])))

\* variant: only the height is checked
TooSmallHeightOnly(width, height) == height < 200

\* width < 200 or height < 200
TooSmall(width, height) == width < 200 \/ height < 200

\* variant: the band [1.1, 1.5]
AspectRejectedNarrow(width, height) ==
    LET long  == IF width < height THEN height ELSE width
        short == IF width < height THEN width ELSE height
    IN  10 * long < 11 * short \/ 2 * long > 3 * short

\* aspect = width / height, inverted when below 1.0; rejected outside
\* [1.1, 3.5].  Only evaluated when width, height >= 200.
AspectRejected(width, height) ==
    LET long  == IF width < height THEN height ELSE width
        short == IF width < height THEN width ELSE height
    IN  10 * long < 11 * short \/ 2 * long > 7 * short

\* variant: min_area = image_area * 0.025
BelowHalfMinArea(area, h, w) == 40 * area < h * w

\* area < min_area, min_area = float(h * w) * 0.05 (exact for areas that
\* are multiples of 0.5)
BelowMinArea(area, h, w) == 20 * area < h * w

\* the four points of a contour: approxPolyDP's when there are exactly four,
\* else the box points of minAreaRect
ContourPoints(c) == IF Len(c.approx) = 4 THEN c.approx ELSE c.box

\* sorted(contours, key=cv2.contourArea, reverse=True): stable, so contours
\* of equal area keep their order.  The result lists indices into contours.
RECURSIVE InsertDesc(_, _, _)
InsertDesc(sorted, i, contours) ==
    IF sorted = <<>> THEN <<i>>
    ELSE IF contours[Head(sorted)].area >= contours[i].area
         THEN <<Head(sorted)>> \o InsertDesc(Tail(sorted), i, contours)
         ELSE <<i>> \o sorted

RECURSIVE SortedFrom(_, _, _)
SortedFrom(contours, i, acc) ==
    IF i > Len(contours) THEN acc
    ELSE SortedFrom(contours, i + 1, InsertDesc(acc, i, contours))

\* variant: the contours taken in the order findContours lists them
InListOrder(contours) == [i \in 1..Len(contours) |-> i]

SortedByArea(contours) == SortedFrom(contours, 1, <<>>)

\* variant: the first contour of the list taken for the largest
FirstContour(contours) == 1

\* max(contours, key=cv2.contourArea): the first contour of maximal area
LargestContour(contours) ==
    CHOOSE i \in DOMAIN contours :
        /\ \A j \in DOMAIN contours : contours[i].area >= contours[j].area
        /\ \A j \in DOMAIN contours : j < i => contours[j].area < contours[i].area

\* one pass of the loop body on contour number i: what the body decides
Examine(contours, i, h, w) ==
    LET c      == contours[i]
        rect   == _order_points(ContourPoints(c))
        width  == QuadWidth(rect)
        height == QuadHeight(rect)
    IN  IF BelowMinArea(c.area, h, w)
        THEN [index |-> i, area |-> c.area, verdict |-> "below_min_area",
              rect |-> <<>>, width |-> 0, height |-> 0]
        ELSE [index |-> i, area |-> c.area,
              verdict |-> IF TooSmall(width, height) THEN "too_small"
                          ELSE IF AspectRejected(width, height) THEN "aspect"
                          ELSE "accepted",
              rect |-> rect, width |-> width, height |-> height]

\* the for loop: the passes made, in order, ending with the first accepted
RECURSIVE LoopFrom(_, _, _, _, _)
LoopFrom(contours, order, h, w, passes) ==
    IF order = <<>> THEN passes
    ELSE LET e == Examine(contours, Head(order), h, w)
         IN  IF e.verdict = "accepted" THEN Append(passes, e)
             ELSE LoopFrom(contours, Tail(order), h, w, Append(passes, e))

CandidateLoop(contours, h, w) == LoopFrom(contours, SortedByArea(contours), h, w, <<>>)

WholeImage == [kind |-> "whole"]

\* dst: where the four corners of rect go
DstCorners(width, height) ==
    << <<0, 0>>, <<width - 1, 0>>, <<width - 1, height - 1>>, <<0, height - 1>> >>

\* variant: the size given to warpPerspective as (height, width)
WarpedShapeSwapped(width, height) == [h |-> width, w |-> height]

\* cv2.warpPerspective(image, matrix, (width, height)): the shape of the result
WarpedShape(width, height) == [h |-> height, w |-> width]

NotCropped == [cropped |-> FALSE, crop_method |-> "None"]

PerspectiveCrop == [cropped |-> TRUE, crop_method |-> "perspective"]

\* variant: the fallback crop returned without its method
BoundingRectUntagged == [cropped |-> TRUE, crop_method |-> "None"]

BoundingRectCrop == [cropped |-> TRUE, crop_method |-> "bounding_rect"]

\* image[y : y + bh, x : x + bw]: numpy clips a slice to the array
SliceLen(start, len, size) == Max2(0, Min2(start + len, size) - Min2(start, size))

\* the fallback after the loop: the bounding box of the largest contour,
\* when its area reaches min_area and the slice is not empty
Fallback(img, contours) ==
    LET best == contours[LargestContour(contours)]
        br   == best.brect
        sh   == SliceLen(br.y, br.bh, img.h)
        sw   == SliceLen(br.x, br.bw, img.w)
    IN  IF ~BelowMinArea(best.area, img.h, img.w) /\ sh * sw > 0
        THEN [image |-> [h |-> sh, w |-> sw, fmt |-> img.fmt,
                         view |-> [kind |-> "slice", x |-> br.x, y |-> br.y,
                                   bw |-> br.bw, bh |-> br.bh],
                         ops |-> img.ops],
              crop_info |-> BoundingRectCrop]
        ELSE [image |-> img, crop_info |-> NotCropped]

\* the image and the crop_info detect_card_region(image) returns, with the
\* passes of its loop (log)
detect_card_region(img, contours) ==
    IF contours = <<>>
    THEN [image |-> img, crop_info |-> NotCropped, log |-> <<>>]
    ELSE LET passes == CandidateLoop(contours, img.h, img.w)
             last   == passes[Len(passes)]
         IN  IF last.verdict = "accepted"
             THEN [image |-> [fmt |-> img.fmt,
                              h |-> WarpedShape(last.width, last.height).h,
                              w |-> WarpedShape(last.width, last.height).w,
                              view |-> [kind |-> "warp", rect |-> last.rect,
                                        dst |-> DstCorners(last.width, last.height)],
                              ops |-> img.ops],
                   crop_info |-> PerspectiveCrop, log |-> passes]
             ELSE [image |-> Fallback(img, contours).image,
                   crop_info |-> Fallback(img, contours).crop_info,
                   log |-> passes]

----------------------------------------------------------------------------
(* preprocess_image: the resize step and the metadata *)

\* variant: max taken for min
LongSide(h, w) == Max2(h, w)

\* short_side = min(h, w)
ShortSide(h, w) == Min2(h, w)

\* variant: resize whenever the short side is not min_size
ResizeUnlessEqual(short, msize) == short # msize

\* if short_side < min_size
NeedsResize(short, msize) == short < msize

\* variant: int() taken for math.ceil()
NewSizeTruncated(d, msize, short) == (d * msize) \div short

\* math.ceil(w * scale) and math.ceil(h * scale), scale = min_size / short_side
NewSize(d, msize, short) == CeilTimesScale(d, msize, short)

\* the value scale_factor has when no resize is done
NoResizeScale == ScaleOne

\* variant: crop_method left out of the dictionary
BuildMetadataNoMethod(info, sf, oshape, img, msize) ==
    [cropped        |-> info.cropped,
     scale_factor   |-> Round4(sf),
     original_shape |-> oshape,
     final_shape    |-> <<img.h, img.w>>,
     min_size       |-> msize]

\* variant: one module-level dictionary updated by every call, a crop_method
\* of None not overwriting the entry of the call before
BuildMetadataMerged(info, sf, oshape, img, msize) ==
    [cropped        |-> info.cropped,
     scale_factor   |-> Round4(sf),
     original_shape |-> oshape,
     final_shape    |-> <<img.h, img.w>>,
     min_size       |-> msize,
     crop_method    |-> IF info.crop_method = "None" /\ calls > 0 /\ pc # "raised"
                           /\ "crop_method" \in DOMAIN metadata
                        THEN metadata.crop_method ELSE info.crop_method]

\* the metadata dictionary
BuildMetadata(info, sf, oshape, img, msize) ==
    [cropped        |-> info.cropped,
     scale_factor   |-> Round4(sf),
     original_shape |-> oshape,
     final_shape    |-> <<img.h, img.w>>,
     min_size       |-> msize,
     crop_method    |-> info.crop_method]

----------------------------------------------------------------------------
(* adjust_gamma: the lookup table, in exact integer arithmetic *)

\* natural numbers beyond the machine word: limbs to the base 10000, the
\* least significant first, no leading zero limb
LimbBase == 10000

RECURSIVE BigOf(_)
BigOf(n) == IF n = 0 THEN <<>> ELSE <<n % LimbBase>> \o BigOf(n \div LimbBase)

RECURSIVE BigTimesFrom(_, _, _)
BigTimesFrom(a, k, carry) ==
    IF a = <<>> THEN BigOf(carry)
    ELSE LET v == Head(a) * k + carry
         IN  <<v % LimbBase>> \o BigTimesFrom(Tail(a), k, v \div LimbBase)

\* a * k for a small k
BigTimes(a, k) == IF k = 0 THEN <<>> ELSE BigTimesFrom(a, k, 0)

RECURSIVE BigPower(_, _)
BigPower(t, n) == IF n = 0 THEN <<1>> ELSE BigTimes(BigPower(t, n - 1), t)

BigLeq(a, b) ==
    IF Len(a) # Len(b) THEN Len(a) < Len(b)
    ELSE LET differ == { j \in 1..Len(a) : a[j] # b[j] }
         IN  \/ differ = {}
             \/ LET top == CHOOSE j \in differ : \A k \in differ : k <= j
                IN  a[top] < b[top]

\* the pixel values: np.arange(256)
TableSize == 256
PixelValues == 0..(TableSize - 1)

\* gamma = 1.1 = 11/10, above the floor of 1e-3; inv_gamma = 10/11
gamma_ratio == <<11, 10>>

\* t^11 for every t that can be compared with twice a table value
PowerTable == [t \in 0..(2 * TableSize) |-> BigPower(t, gamma_ratio[1])]

\* (s * v)^11 for v = (i / 255.0) ** inv_gamma * 255:
\* v^11 = 255^11 * (i/255)^10 = 255 * i^10
ScaledPower(i, s) ==
    BigTimes(BigTimes(BigPower(i, gamma_ratio[2]),
                      (TableSize - 1)), Pow2(gamma_ratio[1] * (s - 1)))

\* floor(s * v) for s = 1, 2: the largest m whose 11th power is not above
\* (s * v)^11.  v is irrational for 0 < i < 255 and at least 0.0017 away
\* from every integer, far more than the error of the double computation
FloorScaled(i, s) ==
    LET r   == ScaledPower(i, s)
        top == s * (TableSize - 1)
    IN  CHOOSE m \in 0..top :
           /\ BigLeq(PowerTable[m], r)
           /\ m = top \/ ~BigLeq(PowerTable[m + 1], r)

\* np.array([...]).astype("uint8"): the conversion drops the fraction
table == [i \in PixelValues |-> FloorScaled(i, 1)]

\* cv2.LUT(image, table) on one pixel value
adjust_gamma(px) == table[px]

----------------------------------------------------------------------------
(* The format of an image buffer and what each enhancement call takes *)

\* np.array of the decoded file after cvtColor(rgb, COLOR_RGB2BGR)
Uint8x3 == [dtype |-> "uint8", channels |-> 3]

\* variant: the table left as the float64 array the comprehension gives
TableDtypeFloat == "float64"

\* np.array([...]).astype("uint8")
TableDtype == "uint8"

\* the format a stage returns for a buffer of format fmt, or ok = FALSE when
\* the call raises:
\*   fastNlMeansDenoisingColored takes 8-bit 3-channel and keeps it;
\*   cvtColor(BGR2LAB) takes 3 channels and CLAHE.apply an 8-bit plane, and
\*     merge / cvtColor(LAB2BGR) give the format back;
\*   GaussianBlur and addWeighted keep any format;
\*   LUT takes an 8-bit buffer and returns the depth of the table
StageOutput(op, fmt) ==
    CASE op = "denoise" -> [ok |-> fmt = Uint8x3, fmt |-> fmt]
      [] op = "clahe"   -> [ok |-> fmt.channels = 3 /\ fmt.dtype = "uint8", fmt |-> fmt]
      [] op = "unsharp" -> [ok |-> TRUE, fmt |-> fmt]
      [] op = "gamma"   -> [ok |-> fmt.dtype = "uint8",
                            fmt |-> [fmt EXCEPT !.dtype = TableDtype]]

----------------------------------------------------------------------------
(* Inputs: what an opened file holds and what the detector finds in it *)

\* cv2.boundingRect of four points
BoundingRect(q) ==
    LET xs == {q[i][1] : i \in 1..4}
        ys == {q[i][2] : i \in 1..4}
        x0 == CHOOSE x \in xs : \A z \in xs : x <= z
        x1 == CHOOSE x \in xs : \A z \in xs : x >= z
        y0 == CHOOSE y \in ys : \A z \in ys : y <= z
        y1 == CHOOSE y \in ys : \A z \in ys : y >= z
    IN  [x |-> x0, y |-> y0, bw |-> x1 - x0 + 1, bh |-> y1 - y0 + 1]

BoxCorners(br) ==
    << <<br.x, br.y>>, <<br.x + br.bw - 1, br.y>>,
       <<br.x + br.bw - 1, br.y + br.bh - 1>>, <<br.x, br.y + br.bh - 1>> >>

\* a contour whose polygon approximation is the quadrilateral q (four) or
\* has a fifth vertex, in which case q is the box of its minAreaRect
Contour(q, four, area) ==
    [area   |-> area,
     approx |-> IF four THEN q ELSE Append(q, q[1]),
     box    |-> IF four THEN BoxCorners(BoundingRect(q)) ELSE q,
     brect  |-> BoundingRect(q)]

\* the 1960 x 1225 rectangle of aspect 1.6 that covers 40% of a 3000 x 2000 frame
CardRect == << <<520, 388>>, <<2479, 388>>, <<2479, 1612>>, <<520, 1612>> >>

\* quadrilaterals as the library lists them: in cyclic order, from any vertex
Rotate(q) == << q[2], q[3], q[4], q[1] >>
Reverse(q) == << q[4], q[3], q[2], q[1] >>

Narrow   == << <<10, 10>>, <<209, 10>>, <<209, 309>>, <<10, 309>> >>
Aspect11 == << <<10, 10>>, <<210, 10>>, <<210, 230>>, <<10, 230>> >>
Square   == << <<0, 0>>, <<300, 0>>, <<300, 300>>, <<0, 300>> >>
Long701  == << <<0, 0>>, <<701, 0>>, <<701, 200>>, <<0, 200>> >>
Long700  == << <<0, 0>>, <<700, 0>>, <<700, 200>>, <<0, 200>> >>
Diamond  == << <<300, 0>>, <<600, 300>>, <<300, 600>>, <<0, 300>> >>
Tilted   == << <<100, 0>>, <<500, 100>>, <<450, 300>>, <<50, 200>> >>
Speck    == << <<0, 0>>, <<10, 0>>, <<10, 10>>, <<0, 10>> >>

Contours ==
    { Contour(CardRect, TRUE, 2400000),
      Contour(Reverse(Rotate(CardRect)), FALSE, 2400000),
      Contour(Narrow, TRUE, 59000),
      Contour(Aspect11, TRUE, 12500),
      Contour(Rotate(Aspect11), FALSE, 12499),
      Contour(Square, FALSE, 90000),
      Contour(Long701, TRUE, 140000),
      Contour(Rotate(Rotate(Long700)), TRUE, 140000),
      Contour(Diamond, TRUE, 180000),
      Contour(Rotate(Diamond), FALSE, 180000),
      Contour(Reverse(Tilted), TRUE, 90000),
      Contour(Speck, TRUE, 100) }

Shapes == { <<2000, 3000>>, <<720, 1280>>, <<500, 500>>, <<169, 300>> }

MinSizes == { 0, 720, 1000 }

\* a contour lies inside the image it was found in
Fits(c, h, w) ==
    /\ \A i \in DOMAIN c.approx :
          c.approx[i][1] \in 0..(w - 1) /\ c.approx[i][2] \in 0..(h - 1)
    /\ c.area <= c.brect.bw * c.brect.bh

RECURSIVE SeqsUpTo(_, _)
SeqsUpTo(S, n) ==
    IF n = 0 THEN { <<>> }
    ELSE LET shorter == SeqsUpTo(S, n - 1)
         IN  shorter \cup { Append(s, x) : s \in shorter, x \in S }

ImagesOfShape(h, w, n) ==
    { [decodable |-> TRUE, h |-> h, w |-> w, contours |-> cs] :
        cs \in SeqsUpTo({ c \in Contours : Fits(c, h, w) }, n) }

\* a file Image.open cannot decode
BadFile == [decodable |-> FALSE, h |-> 0, w |-> 0, contours |-> <<>>]

Inputs == UNION { ImagesOfShape(s[1], s[2], MaxContours) : s \in Shapes } \cup { BadFile }

\* the inputs of a batch: the images with at most one contour
BatchInputs == { in \in Inputs : Len(in.contours) <= 1 /\ in.h <= 500 }

----------------------------------------------------------------------------
(* Initial state *)

Unset == [unset |-> TRUE]

NoCall == [none |-> TRUE]

InitPipeline ==
    /\ pc = "idle"
    /\ calls = 0
    /\ raw = Unset
    /\ min_size = 0
    /\ image = Unset
    /\ crop_info = Unset
    /\ log = <<>>
    /\ original_shape = <<>>
    /\ scale_factor = ScaleOne
    /\ metadata = Unset
    /\ first = NoCall
    /\ between = FALSE

\* the parts of the program a specification does not exercise stay idle
IdleOrder ==
    /\ op_pts = <<>>
    /\ op_rect = <<>>

IdleGamma ==
    /\ lut_in = 0
    /\ lut_out = <<>>

IdleMain ==
    /\ m_pc = "idle"
    /\ args = Unset
    /\ image_paths = <<>>
    /\ idx = 0
    /\ repo = FALSE
    /\ m_calls = <<>>
    /\ disk = Unset
    /\ supabase = <<>>
    /\ manifest_entries = <<>>
    /\ outcome = Unset

IdleGemini ==
    /\ g_pc = "idle"
    /\ gemini_model = FALSE
    /\ max_retries = 0
    /\ base_delay = 0
    /\ attempt = 0
    /\ response = Unset
    /\ requests = <<>>
    /\ sleeps = <<>>
    /\ call_result = Unset
    /\ summary = Unset

IdleInsert ==
    /\ i_pc = "idle"
    /\ i_args = Unset
    /\ rows = <<>>
    /\ i_start = 0
    /\ inserts = <<>>

IdleServices ==
    /\ IdleGemini
    /\ IdleInsert

Init ==
    /\ InitPipeline
    /\ IdleOrder
    /\ IdleGamma
    /\ IdleMain
    /\ IdleServices

history == << first, between >>

\* what the invocation that just ended gave its caller
Result ==
    IF pc = "raised" THEN [raised |-> TRUE]
    ELSE [raised |-> FALSE, image |-> image, metadata |-> metadata]

\* the history after an invocation on (in, msize) ended with result r
Recorded(in, msize, r) ==
    /\ first' = IF first = NoCall THEN [raw |-> in, min_size |-> msize, result |-> r]
                ELSE first
    /\ between' = (between \/ (first # NoCall /\ (first.raw # in \/ first.min_size # msize)))

----------------------------------------------------------------------------
(* preprocess_image, stage by stage *)

\* Image.open, exif_transpose, np.array, cvtColor: the call begins
Open(in, msize) ==
    /\ raw' = in
    /\ min_size' = msize
    /\ crop_info' = Unset
    /\ log' = <<>>
    /\ original_shape' = <<>>
    /\ scale_factor' = ScaleOne
    /\ IF in.decodable
       THEN /\ pc' = "opened"
            /\ image' = [h |-> in.h, w |-> in.w, fmt |-> Uint8x3,
                         view |-> WholeImage, ops |-> <<>>]
            /\ UNCHANGED << calls, history >>
       ELSE /\ pc' = "raised"
            /\ image' = Unset
            /\ calls' = calls + 1
            /\ Recorded(in, msize, [raised |-> TRUE])
    /\ UNCHANGED << metadata, outside >>

\* the caller invokes preprocess_image(path, min_size) once the invocation
\* before has ended, up to limit times
Call(inputs, limit) ==
    /\ pc \in {"idle", "returned", "raised"}
    /\ calls < limit
    /\ \E in \in inputs, msize \in MinSizes : Open(in, msize)

\* image, crop_info = detect_card_region(image)
Detect ==
    /\ pc = "opened"
    /\ LET d == detect_card_region(image, raw.contours)
       IN  /\ image' = d.image
           /\ crop_info' = d.crop_info
           /\ log' = d.log
    /\ pc' = "detected"
    /\ UNCHANGED << calls, raw, min_size, original_shape, scale_factor, metadata,
                    history, outside >>

\* minimum resolution enforcement
Normalize ==
    /\ pc = "detected"
    /\ LET h == image.h
           w == image.w
           short_side == ShortSide(h, w)
       IN  /\ original_shape' = <<h, w>>
           /\ IF NeedsResize(short_side, min_size)
              THEN /\ image' = [image EXCEPT
                                  !.h = NewSize(h, min_size, short_side),
                                  !.w = NewSize(w, min_size, short_side),
                                  !.ops = Append(@, "resize")]
                   /\ scale_factor' = <<min_size, short_side>>
              ELSE /\ image' = image
                   /\ scale_factor' = NoResizeScale
    /\ pc' = "normalized"
    /\ UNCHANGED << calls, raw, min_size, crop_info, log, metadata, history, outside >>

\* an enhancement stage: the library call keeps the shape, and raises
\* cv2.error on a buffer of a format it does not take
Stage(from, to, op) ==
    /\ pc = from
    /\ LET out == StageOutput(op, image.fmt)
       IN  IF out.ok
           THEN /\ image' = [image EXCEPT !.ops = Append(@, op), !.fmt = out.fmt]
                /\ pc' = to
                /\ UNCHANGED << calls, history >>
           ELSE /\ image' = image
                /\ pc' = "raised"
                /\ calls' = calls + 1
                /\ Recorded(raw, min_size, [raised |-> TRUE])
    /\ UNCHANGED << raw, min_size, crop_info, log, original_shape,
                    scale_factor, metadata, outside >>

Denoise == Stage("normalized", "denoised", "denoise")

\* variant: CLAHE applied only to an image that was cropped
ClaheWhenCropped ==
    /\ pc = "denoised"
    /\ image' = IF crop_info.cropped THEN [image EXCEPT !.ops = Append(@, "clahe")]
                ELSE image
    /\ pc' = "equalized"
    /\ UNCHANGED << calls, raw, min_size, crop_info, log, original_shape,
                    scale_factor, metadata, history, outside >>

Clahe == Stage("denoised", "equalized", "clahe")

Unsharp == Stage("equalized", "sharpened", "unsharp")

Gamma == Stage("sharpened", "corrected", "gamma")

\* metadata = {...}; return image, metadata
Return ==
    /\ pc = "corrected"
    /\ metadata' = BuildMetadata(crop_info, scale_factor, original_shape, image, min_size)
    /\ pc' = "returned"
    /\ calls' = calls + 1
    /\ Recorded(raw, min_size,
                [raised |-> FALSE, image |-> image, metadata |-> metadata'])
    /\ UNCHANGED << raw, min_size, locals, outside >>

\* one invocation, on any input
Next ==
    \/ Call(Inputs, 1)
    \/ Detect
    \/ Normalize
    \/ Denoise
    \/ Clahe
    \/ Unsharp
    \/ Gamma
    \/ Return

Spec == Init /\ [][Next]_vars

\* a batch: up to MaxCalls invocations, one after the other
NextBatch ==
    \/ Call(BatchInputs, MaxCalls)
    \/ Detect
    \/ Normalize
    \/ Denoise
    \/ Clahe
    \/ Unsharp
    \/ Gamma
    \/ Return

SpecBatch == Init /\ [][NextBatch]_vars

----------------------------------------------------------------------------
(* The enhancement chain applied again to what it returned *)

\* the number of times the chain has run on the buffer
RECURSIVE CountOf(_, _)
CountOf(op, ops) ==
    IF ops = <<>> THEN 0
    ELSE (IF Head(ops) = op THEN 1 ELSE 0) + CountOf(op, Tail(ops))

\* the returned array is given to lines 275-287 once more
Reapply ==
    /\ pc = "returned"
    /\ CountOf("gamma", image.ops) < MaxPasses
    /\ pc' = "normalized"
    /\ UNCHANGED << calls, raw, min_size, locals, metadata, history, outside >>

NextChain ==
    \/ Call(Inputs, 1)
    \/ Detect
    \/ Normalize
    \/ Denoise
    \/ Clahe
    \/ Unsharp
    \/ Gamma
    \/ Return
    \/ Reapply

SpecChain == Init /\ [][NextChain]_vars

----------------------------------------------------------------------------
(* _order_points called directly, on every four points of a small grid *)

Grid == { <<x, y>> : x \in 0..GridMax, y \in 0..GridMax }

InitOrder ==
    /\ InitPipeline
    /\ IdleGamma
    /\ IdleMain
    /\ IdleServices
    /\ op_pts \in [1..4 -> Grid]
    /\ op_rect = <<>>

CallOrderPoints ==
    /\ op_rect = <<>>
    /\ op_rect' = _order_points(op_pts)
    /\ UNCHANGED << pipelineVars, op_pts, gammaVars, mainVars, serviceVars >>

NextOrder == CallOrderPoints

SpecOrder == InitOrder /\ [][NextOrder]_vars

----------------------------------------------------------------------------
(* adjust_gamma applied to every pixel value *)

InitGamma ==
    /\ InitPipeline
    /\ IdleOrder
    /\ IdleMain
    /\ IdleServices
    /\ lut_in \in PixelValues
    /\ lut_out = <<>>

ApplyTable ==
    /\ lut_out = <<>>
    /\ lut_out' = << adjust_gamma(lut_in) >>
    /\ UNCHANGED << pipelineVars, orderVars, mainVars, serviceVars, lut_in >>

NextGamma == ApplyTable

SpecGamma == InitGamma /\ [][NextGamma]_vars

----------------------------------------------------------------------------
(* main: the command line, the file system and Supabase *)

SUPPORTED_EXTENSIONS ==
    { ".png", ".jpg", ".jpeg", ".bmp", ".tif", ".tiff", ".webp", ".heic", ".heif" }

\* path.suffix.lower(), on the suffixes that occur here
Lower(suffix) == IF suffix = ".PNG" THEN ".png" ELSE suffix

\* a resolved path: directory, stem and suffix
File(dir, stem, suffix) == [dir |-> dir, stem |-> stem, suffix |-> suffix]

CardA   == File("a", "card", ".jpg")
CardB   == File("b", "card", ".jpg")
ScanA   == File("a", "scan", ".PNG")
NotesA  == File("a", "notes", ".txt")
BrokenB == File("b", "broken", ".jpg")

\* the files Image.open cannot decode
Undecodable == { BrokenB }

\* what a positional argument names: a file, a directory (its files as
\* sorted(path.rglob("*")) lists them) or nothing
Targets ==
    { [kind |-> "file", files |-> << CardA >>],
      [kind |-> "file", files |-> << CardB >>],
      [kind |-> "file", files |-> << NotesA >>],
      [kind |-> "file", files |-> << BrokenB >>],
      [kind |-> "dir", files |-> << CardA, NotesA, ScanA >>],
      [kind |-> "missing", files |-> <<>>] }

\* parse_args: inputs (nargs="+"), --dry-run, --record-to-db, --user-id
ArgSets ==
    { [inputs |-> ins, dry_run |-> d, record_to_db |-> r, user_id |-> u] :
        ins \in SeqsUpTo(Targets, MaxInputs) \ { <<>> },
        d \in BOOLEAN, r \in BOOLEAN, u \in BOOLEAN }

InSeq(x, seq) == \E i \in DOMAIN seq : seq[i] = x

\* the candidates of one target: supported suffix, not seen before
RECURSIVE AddFiles(_, _)
AddFiles(files, collected) ==
    IF files = <<>> THEN collected
    ELSE LET f == Head(files)
         IN  AddFiles(Tail(files),
                      IF Lower(f.suffix) \in SUPPORTED_EXTENSIONS /\ ~InSeq(f, collected)
                      THEN Append(collected, f) ELSE collected)

RECURSIVE CollectFrom(_, _)
CollectFrom(targets, collected) ==
    IF targets = <<>>
    THEN [raised |-> collected = <<>>, paths |-> collected]
    ELSE IF Head(targets).kind = "missing"
         THEN [raised |-> TRUE, paths |-> <<>>]
         ELSE CollectFrom(Tail(targets), AddFiles(Head(targets).files, collected))

\* collect_image_paths(inputs): the list, or FileNotFoundError raised
collect_image_paths(inputs) == CollectFrom(inputs, <<>>)

\* destination = output_dir / path.name
Destination(path) == [stem |-> path.stem, suffix |-> path.suffix]

EmptyDisk == [output_dir |-> FALSE, files |-> {}, failed |-> {}, manifest |-> <<>>,
              manifest_written |-> FALSE]

Running == [kind |-> "running"]

Exit(code) == [kind |-> "exit", code |-> code]

Raised(exception, what) == [kind |-> exception, message |-> what]

\* variant: the output directory made whatever the flags
MakesOutputDirAlways(a) == TRUE

\* if not args.dry_run: output_dir.mkdir(parents=True, exist_ok=True)
MakesOutputDir(a) == ~a.dry_run

\* the process ends
Ends(how) ==
    /\ outcome' = how
    /\ m_pc' = "ended"

\* args = parse_args(); --record-to-db with --dry-run is refused
ParseArgs ==
    /\ m_pc = "start"
    /\ IF args.record_to_db /\ args.dry_run
       THEN Ends(Exit(1))
       ELSE m_pc' = "collect" /\ UNCHANGED outcome
    /\ UNCHANGED << args, image_paths, idx, repo, m_calls, disk, supabase,
                    manifest_entries, pipelineVars, orderVars, gammaVars, serviceVars >>

\* image_paths = collect_image_paths(args.inputs); the output directory
Collect ==
    /\ m_pc = "collect"
    /\ LET c == collect_image_paths(args.inputs)
       IN  IF c.raised
           THEN /\ Ends(Raised("FileNotFoundError", <<>>))
                /\ UNCHANGED << image_paths, disk >>
           ELSE /\ image_paths' = c.paths
                /\ disk' = [disk EXCEPT !.output_dir = @ \/ MakesOutputDir(args)]
                /\ m_pc' = "repo"
                /\ UNCHANGED outcome
    /\ UNCHANGED << args, idx, repo, m_calls, supabase, manifest_entries,
                    pipelineVars, orderVars, gammaVars, serviceVars >>

\* if args.record_to_db: user_id, SupabaseRepository(), repo.ensure_project(...).
\* ensure_project returns the project id or raises, so "repo and project_id"
\* is repo from here on
InitRepo ==
    /\ m_pc = "repo"
    /\ IF ~args.record_to_db
       THEN /\ m_pc' = "loop" /\ idx' = 1
            /\ UNCHANGED << repo, supabase, outcome >>
       ELSE IF ~args.user_id
       THEN /\ Ends(Exit(1))
            /\ UNCHANGED << idx, repo, supabase >>
       ELSE \E configured \in BOOLEAN, ensured \in BOOLEAN :
               IF configured /\ ensured
               THEN /\ repo' = TRUE
                    /\ supabase' = Append(supabase, [op |-> "ensure_project"])
                    /\ m_pc' = "loop" /\ idx' = 1
                    /\ UNCHANGED outcome
               ELSE /\ Ends(Exit(1))
                    /\ UNCHANGED << idx, repo, supabase >>
    /\ UNCHANGED << args, image_paths, m_calls, disk, manifest_entries,
                    pipelineVars, orderVars, gammaVars, serviceVars >>

\* for idx, path in enumerate(image_paths, start=1): if args.dry_run: continue
DryRunSkip ==
    /\ m_pc = "loop"
    /\ idx <= Len(image_paths)
    /\ args.dry_run
    /\ idx' = idx + 1
    /\ UNCHANGED << m_pc, args, image_paths, repo, m_calls, disk, supabase,
                    manifest_entries, outcome, pipelineVars, orderVars, gammaVars, serviceVars >>

\* variant: the value cv2.imwrite returns is not looked at
WriteFailedIgnored(path) ==
    /\ m_pc' = IF repo THEN "upload_source" ELSE "loop"
    /\ idx' = IF repo THEN idx ELSE idx + 1
    /\ UNCHANGED outcome

\* if not success: raise RuntimeError(f"Failed to write ...: {destination}")
WriteFailed(path) ==
    /\ Ends(Raised("RuntimeError", Destination(path)))
    /\ UNCHANGED idx

\* processed, process_info = preprocess_image(path, args.min_size);
\* success = cv2.imwrite(str(destination), processed)
ProcessOne ==
    /\ m_pc = "loop"
    /\ idx <= Len(image_paths)
    /\ ~args.dry_run
    /\ LET path == image_paths[idx]
       IN  /\ m_calls' = Append(m_calls, path)
           /\ IF path \in Undecodable
              THEN /\ Ends(Raised("UnidentifiedImageError", path))
                   /\ UNCHANGED << idx, disk >>
              ELSE \E success \in BOOLEAN :
                      IF success
                      THEN /\ disk' = [disk EXCEPT !.files =
                                         { f \in @ : f.name # Destination(path) }
                                         \cup { [name |-> Destination(path), from |-> path] }]
                           /\ m_pc' = IF repo THEN "upload_source" ELSE "loop"
                           /\ idx' = IF repo THEN idx ELSE idx + 1
                           /\ UNCHANGED outcome
                      ELSE /\ disk' = [disk EXCEPT !.failed = @ \cup { Destination(path) }]
                           /\ WriteFailed(path)
    /\ UNCHANGED << args, image_paths, repo, supabase, manifest_entries,
                    pipelineVars, orderVars, gammaVars, serviceVars >>

\* variant: a failed call is logged and the loop body goes on
SupabaseCallLenient(at, op, then) ==
    /\ m_pc = at
    /\ \E ok \in BOOLEAN :
          /\ supabase' = IF ok THEN Append(supabase, [op |-> op, path |-> image_paths[idx]])
                         ELSE supabase
          /\ m_pc' = then
          /\ UNCHANGED outcome
    /\ UNCHANGED << args, image_paths, idx, repo, m_calls, disk, manifest_entries,
                    pipelineVars, orderVars, gammaVars, serviceVars >>

\* one Supabase call of the loop body: on an exception, [ERROR] and sys.exit(1)
SupabaseCall(at, op, then) ==
    /\ m_pc = at
    /\ \E ok \in BOOLEAN :
          IF ok
          THEN /\ supabase' = Append(supabase, [op |-> op, path |-> image_paths[idx]])
               /\ m_pc' = then
               /\ UNCHANGED outcome
          ELSE /\ Ends(Exit(1))
               /\ UNCHANGED supabase
    /\ UNCHANGED << args, image_paths, idx, repo, m_calls, disk, manifest_entries,
                    pipelineVars, orderVars, gammaVars, serviceVars >>

UploadSource == SupabaseCall("upload_source", "upload_source_file", "record_source")

RecordSource == SupabaseCall("record_source", "upsert_source_image", "upload_processed")

UploadProcessed == SupabaseCall("upload_processed", "upload_processed_file", "record_processed")

RecordProcessed == SupabaseCall("record_processed", "upsert_processed_image", "append")

\* manifest_entries.append({...}); the next image
AppendEntry ==
    /\ m_pc = "append"
    /\ manifest_entries' = Append(manifest_entries,
                                  [source_path |-> image_paths[idx],
                                   processed_path |-> Destination(image_paths[idx])])
    /\ idx' = idx + 1
    /\ m_pc' = "loop"
    /\ UNCHANGED << args, image_paths, repo, m_calls, disk, supabase, outcome,
                    pipelineVars, orderVars, gammaVars, serviceVars >>

\* after the loop: the manifest, when there is something to record; a
\* failure to write it is a warning
Finish ==
    /\ m_pc = "loop"
    /\ idx > Len(image_paths)
    /\ IF repo /\ manifest_entries # <<>>
       THEN \E written \in BOOLEAN :
               disk' = IF written
                       THEN [disk EXCEPT !.manifest = manifest_entries,
                                         !.manifest_written = TRUE]
                       ELSE disk
       ELSE UNCHANGED disk
    /\ Ends(Exit(0))
    /\ UNCHANGED << args, image_paths, idx, repo, m_calls, supabase, manifest_entries,
                    pipelineVars, orderVars, gammaVars, serviceVars >>

InitMain ==
    /\ InitPipeline
    /\ IdleOrder
    /\ IdleGamma
    /\ IdleServices
    /\ m_pc = "start"
    /\ args \in ArgSets
    /\ image_paths = <<>>
    /\ idx = 0
    /\ repo = FALSE
    /\ m_calls = <<>>
    /\ disk = EmptyDisk
    /\ supabase = <<>>
    /\ manifest_entries = <<>>
    /\ outcome = Running

NextMain ==
    \/ ParseArgs
    \/ Collect
    \/ InitRepo
    \/ DryRunSkip
    \/ ProcessOne
    \/ UploadSource
    \/ RecordSource
    \/ UploadProcessed
    \/ RecordProcessed
    \/ AppendEntry
    \/ Finish

SpecMain == InitMain /\ [][NextMain]_vars

----------------------------------------------------------------------------
(* yomitoku.py: generate_summary_fields and call_gemini_summary *)

MaxRetries == 3

\* values of MAX_GEMINI_RETRIES (an integer of the environment, default 3)
Retries == 0..MaxRetries

\* values of GEMINI_RETRY_BASE_DELAY in seconds (a float of the environment,
\* default 5)
Delays == {-1, 0, 5}

\* the eleven headers, transliterated
SUMMARY_HEADERS ==
    << "name", "name_en", "occupation", "Tel", "e-mail", "affiliation",
       "main_Tel", "postal_code", "address", "URL", "other" >>

Headers == { SUMMARY_HEADERS[k] : k \in 1..Len(SUMMARY_HEADERS) }

\* JSON values as json.loads gives them
JNull == [t |-> "null"]

JStr(chars) == [t |-> "str", v |-> chars]

JNum(n) == [t |-> "num", v |-> n]

JObj(items) == [t |-> "obj", items |-> items]

\* objects a response may hold
EmptyObject == JObj([key \in {} |-> JNull])

CompleteObject == JObj([key \in Headers |-> JStr("x")])

SparseObject ==
    JObj([key \in {"name", "Tel", "URL", "fax"} |->
            CASE key = "name" -> JStr("Sato")
              [] key = "Tel" -> JNull
              [] key = "URL" -> JNum(7)
              [] key = "fax" -> JStr("03")])

\* response.text: missing or None, "", text without {...}, text whose {...}
\* json.loads rejects, text whose {...} decodes to an object
Texts ==
    { [kind |-> "none"], [kind |-> "empty"], [kind |-> "prose"],
      [kind |-> "malformed"] }
    \cup { [kind |-> "json", object |-> o] :
             o \in {EmptyObject, CompleteObject, SparseObject} }

Responses == { [text |-> t] : t \in Texts }

\* re.search(r"\{.*\}") and json.loads: a dict or None
_extract_json_from_text(text) ==
    IF text.kind = "json" THEN text.object ELSE JNull

\* Python truth of a text and of a parsed value
TextIsFalsy(text) == text.kind \in {"none", "empty"}

ParsedIsFalsy(parsed) ==
    \/ parsed.t = "null"
    \/ parsed.t = "obj" /\ DOMAIN parsed.items = {}

Decimal(n) == << "0", "1", "2", "3", "4", "5", "6", "7", "8", "9" >>[n + 1]

\* str(value) of a value that is not None
Str(value) ==
    CASE value.t = "str" -> value.v
      [] value.t = "num" -> Decimal(value.v)

\* result[key] = str(parsed.get(key, "") or "" when it is None)
FieldsOf(parsed) ==
    [key \in Headers |->
        LET value == IF key \in DOMAIN parsed.items THEN parsed.items[key]
                     ELSE JStr("")
        IN  IF value = JNull THEN "" ELSE Str(value)]

GeminiReturned(fields) == [returned |-> fields]

GeminiRaised(exception, message) == [raised |-> exception, message |-> message]

\* the result of extract_summary_fields_heuristic(results)
Heuristic == [heuristic |-> TRUE]

LastAttemptLate(n, limit) == n >= limit

\* attempt + 1 >= MAX_GEMINI_RETRIES
LastAttempt(n, limit) == n + 1 >= limit

\* time.sleep raises ValueError for a negative length
SleepAccepts(seconds) == seconds >= 0

CaughtRuntimeError(exception) ==
    exception \in {"GeminiRateLimitError", "RuntimeError"}

\* the except clause of generate_summary_fields
Caught(exception) == exception = "GeminiRateLimitError"

\* generate_summary_fields on what call_gemini_summary returned or raised
Handled(res) ==
    IF "raised" \in DOMAIN res /\ Caught(res.raised) THEN Heuristic ELSE res

CallEnds(res) ==
    /\ call_result' = res
    /\ summary' = Handled(res)
    /\ g_pc' = "done"

\* what call_gemini_summary does with the response after the loop
AfterLoop(resp) ==
    IF resp = Unset
    THEN GeminiRaised("RuntimeError", "Gemini response was empty after retries.")
    ELSE IF TextIsFalsy(resp.text)
    THEN GeminiRaised("RuntimeError", "Gemini response did not contain text output.")
    ELSE LET parsed == _extract_json_from_text(resp.text)
         IN  IF ParsedIsFalsy(parsed)
             THEN GeminiRaised("RuntimeError", "Could not parse JSON from Gemini response.")
             ELSE GeminiReturned(FieldsOf(parsed))

GenerateSummaryFields ==
    /\ g_pc = "start"
    /\ IF ~gemini_model
       THEN /\ summary' = Heuristic
            /\ g_pc' = "done"
       ELSE /\ g_pc' = "loop"
            /\ UNCHANGED summary
    /\ UNCHANGED << gemini_model, max_retries, base_delay, attempt, response,
                    requests, sleeps, call_result,
                    pipelineVars, orderVars, gammaVars, mainVars, insertVars >>

RequestOk ==
    /\ g_pc = "loop"
    /\ attempt < max_retries
    /\ \E r \in Responses : response' = r
    /\ requests' = Append(requests, "ok")
    /\ g_pc' = "after"
    /\ UNCHANGED << gemini_model, max_retries, base_delay, attempt, sleeps,
                    call_result, summary,
                    pipelineVars, orderVars, gammaVars, mainVars, insertVars >>

RequestRateLimited ==
    /\ g_pc = "loop"
    /\ attempt < max_retries
    /\ requests' = Append(requests, "ResourceExhausted")
    /\ IF LastAttempt(attempt, max_retries)
       THEN /\ CallEnds(GeminiRaised("GeminiRateLimitError", "ResourceExhausted"))
            /\ UNCHANGED << attempt, sleeps >>
       ELSE LET wait_seconds == base_delay * (2 ^ attempt)
            IN  IF SleepAccepts(wait_seconds)
                THEN /\ sleeps' = Append(sleeps, wait_seconds)
                     /\ attempt' = attempt + 1
                     /\ UNCHANGED << g_pc, call_result, summary >>
                ELSE /\ CallEnds(GeminiRaised("ValueError",
                                              "sleep length must be non-negative"))
                     /\ UNCHANGED << attempt, sleeps >>
    /\ UNCHANGED << gemini_model, max_retries, base_delay, response,
                    pipelineVars, orderVars, gammaVars, mainVars, insertVars >>

RequestFailed ==
    /\ g_pc = "loop"
    /\ attempt < max_retries
    /\ requests' = Append(requests, "Exception")
    /\ CallEnds(GeminiRaised("RuntimeError", "Gemini request failed"))
    /\ UNCHANGED << gemini_model, max_retries, base_delay, attempt, response,
                    sleeps,
                    pipelineVars, orderVars, gammaVars, mainVars, insertVars >>

LoopExhausted ==
    /\ g_pc = "loop"
    /\ attempt >= max_retries
    /\ g_pc' = "after"
    /\ UNCHANGED << gemini_model, max_retries, base_delay, attempt, response,
                    requests, sleeps, call_result, summary,
                    pipelineVars, orderVars, gammaVars, mainVars, insertVars >>

ReadResponse ==
    /\ g_pc = "after"
    /\ CallEnds(AfterLoop(response))
    /\ UNCHANGED << gemini_model, max_retries, base_delay, attempt, response,
                    requests, sleeps,
                    pipelineVars, orderVars, gammaVars, mainVars, insertVars >>

InitGemini ==
    /\ InitPipeline
    /\ IdleOrder
    /\ IdleGamma
    /\ IdleMain
    /\ IdleInsert
    /\ g_pc = "start"
    /\ gemini_model \in BOOLEAN
    /\ max_retries \in Retries
    /\ base_delay \in Delays
    /\ attempt = 0
    /\ response = Unset
    /\ requests = <<>>
    /\ sleeps = <<>>
    /\ call_result = Unset
    /\ summary = Unset

NextGemini ==
    \/ GenerateSummaryFields
    \/ RequestOk
    \/ RequestRateLimited
    \/ RequestFailed
    \/ LoopExhausted
    \/ ReadResponse

SpecGemini == InitGemini /\ [][NextGemini]_vars

\* the calls are made one after the other by one thread, and each
\* generate_content and each sleep comes back
SpecGeminiFair == SpecGemini /\ WF_vars(NextGemini)

----------------------------------------------------------------------------
(* supabase_utils.py: insert_result_fields and flatten_payload *)

MaxChunks == 2

chunk_size == 500

\* payload values: dicts keep their items in insertion order
PBool(b) == [t |-> "bool", v |-> b]

PList(items) == [t |-> "list", items |-> items]

PDict(items) == [t |-> "dict", items |-> items]

\* the segments of a key path: ".key" and "[idx]"
KeySegment(key) == [key |-> key]

IndexSegment(index) == [index |-> index]

\* json.dumps(value, ensure_ascii=False)
JsonDumps(value) == [t |-> "json", of |-> value]

\* float(value)
Float(value) == [t |-> "float", v |-> value.v]

\* _coerce_value: (text, numeric, boolean, json)
_coerce_value(value) ==
    CASE value.t = "null" -> << JNull, JNull, JNull, JNull >>
      [] value.t = "bool" -> << JNull, JNull, value, JNull >>
      [] value.t = "num" -> << JNull, Float(value), JNull, JNull >>
      [] value.t = "str" -> << value, JNull, JNull, JNull >>
      [] OTHER -> << JNull, JNull, JNull, JsonDumps(value) >>

ValueDict(coerced) ==
    [value_text |-> coerced[1], value_numeric |-> coerced[2],
     value_boolean |-> coerced[3], value_json |-> coerced[4]]

RECURSIVE _walk(_, _)
RECURSIVE WalkChildren(_, _, _, _)

\* the children lo..hi of a dict or a list, in order
WalkChildren(prefix, value, lo, hi) ==
    IF lo > hi THEN << >>
    ELSE IF lo = hi
    THEN IF value.t = "dict"
         THEN _walk(Append(prefix, KeySegment(value.items[lo][1])),
                    value.items[lo][2])
         ELSE _walk(Append(prefix, IndexSegment(lo - 1)), value.items[lo])
    ELSE LET mid == (lo + hi) \div 2
         IN  WalkChildren(prefix, value, lo, mid)
                 \o WalkChildren(prefix, value, mid + 1, hi)

\* what _walk appends to acc
_walk(prefix, value) ==
    CASE value.t = "dict" -> WalkChildren(prefix, value, 1, Len(value.items))
      [] value.t = "list" ->
            << << prefix, ValueDict(<< JNull, JNull, JNull, JsonDumps(value) >>) >> >>
                \o WalkChildren(prefix, value, 1, Len(value.items))
      [] OTHER -> << << prefix, ValueDict(_coerce_value(value)) >> >>

flatten_payload(payload) == _walk(<< >>, payload)

PySliceInclusive(seq, from, to) ==
    SubSeq(seq, from + 1, IF to + 1 < Len(seq) THEN to + 1 ELSE Len(seq))

\* seq[from : to]
PySlice(seq, from, to) ==
    SubSeq(seq, from + 1, IF to < Len(seq) THEN to ELSE Len(seq))

\* dict keys: a name, numbered where a dict has many ("field1", "field2", ...)
Key(name, number) == [name |-> name, number |-> number]

\* payloads that flatten to n rows
Primitive(k) ==
    CASE k % 4 = 0 -> JStr("x")
      [] k % 4 = 1 -> JNum(k)
      [] k % 4 = 2 -> PBool(TRUE)
      [] k % 4 = 3 -> JNull

\* a dict of n primitive values
FlatPayload(n) == PDict([k \in 1..n |-> << Key("field", k), Primitive(k) >>])

\* a dict with one list of n - 1 values, or the empty dict
ListPayload(n) ==
    IF n = 0 THEN PDict(<< >>)
    ELSE PDict(<< << Key("lines", 0), PList([k \in 1..(n - 1) |-> Primitive(k)]) >> >>)

\* a dict inside a dict, next to an empty dict and an empty list
NestedPayload(n) ==
    IF n = 0 THEN PDict(<< << Key("empty", 0), PDict(<< >>) >> >>)
    ELSE PDict(<< << Key("empty", 0), PDict(<< >>) >>,
                  << Key("summary", 0), FlatPayload(n - 1) >>,
                  << Key("tables", 0), PList(<< >>) >> >>)

RowCounts ==
    {0, 1, 2} \cup { (k * chunk_size) + d : k \in 1..MaxChunks, d \in {-1, 0, 1} }

Payloads ==
    UNION { { FlatPayload(n), ListPayload(n), NestedPayload(n) } : n \in RowCounts }

InsertArgs ==
    [result_id : {"result-1"}, project_id : {"project-1"},
     user_id : {"user-1", "user-2"}, payload : Payloads]

RowOf(a, entry) ==
    [result_id |-> a.result_id, project_id |-> a.project_id,
     user_id |-> a.user_id, key_path |-> entry[1],
     value_text |-> entry[2].value_text,
     value_numeric |-> entry[2].value_numeric,
     value_boolean |-> entry[2].value_boolean,
     value_json |-> entry[2].value_json]

\* the list comprehension over flattened
RowsOf(a, flattened) == [k \in 1..Len(flattened) |-> RowOf(a, flattened[k])]

InsertResultFields ==
    /\ i_pc = "start"
    /\ \E flattened \in { flatten_payload(i_args.payload) } :
          IF flattened = << >>
          THEN /\ i_pc' = "returned"
               /\ UNCHANGED rows
          ELSE /\ rows' = RowsOf(i_args, flattened)
               /\ i_pc' = "loop"
    /\ UNCHANGED << i_args, i_start, inserts,
                    pipelineVars, orderVars, gammaVars, mainVars, geminiVars >>

\* one pass of the loop: the insert is made and executed
InsertChunk ==
    /\ i_pc = "loop"
    /\ i_start < Len(rows)
    /\ inserts' = Append(inserts, PySlice(rows, i_start, i_start + chunk_size))
    /\ i_start' = i_start + chunk_size
    /\ UNCHANGED << i_pc, i_args, rows,
                    pipelineVars, orderVars, gammaVars, mainVars, geminiVars >>

\* one pass of the loop: execute() raises
InsertFails ==
    /\ i_pc = "loop"
    /\ i_start < Len(rows)
    /\ inserts' = Append(inserts, PySlice(rows, i_start, i_start + chunk_size))
    /\ i_pc' = "raised"
    /\ UNCHANGED << i_args, rows, i_start,
                    pipelineVars, orderVars, gammaVars, mainVars, geminiVars >>

InsertDone ==
    /\ i_pc = "loop"
    /\ i_start >= Len(rows)
    /\ i_pc' = "returned"
    /\ UNCHANGED << i_args, rows, i_start, inserts,
                    pipelineVars, orderVars, gammaVars, mainVars, geminiVars >>

InitInsert ==
    /\ InitPipeline
    /\ IdleOrder
    /\ IdleGamma
    /\ IdleMain
    /\ IdleGemini
    /\ i_pc = "start"
    /\ i_args \in InsertArgs
    /\ rows = << >>
    /\ i_start = 0
    /\ inserts = << >>

NextInsert ==
    \/ InsertResultFields
    \/ InsertChunk
    \/ InsertFails
    \/ InsertDone

SpecInsert == InitInsert /\ [][NextInsert]_vars

----------------------------------------------------------------------------
(* Properties *)

Returned == pc = "returned"

AfterNormalize == pc \in {"normalized", "denoised", "equalized", "sharpened",
                          "corrected", "returned"}

AfterDetect == pc = "detected" \/ AfterNormalize

ShortOf(shape) == IF shape[1] <= shape[2] THEN shape[1] ELSE shape[2]

Resized == \E k \in DOMAIN image.ops : image.ops[k] = "resize"

\* C1: whatever the image, min_size and crop outcome, the returned metadata
\* has min(final_shape[0], final_shape[1]) >= min_size.
C1_SizeInvariant ==
    Returned =>
        /\ metadata.final_shape[1] >= min_size
        /\ metadata.final_shape[2] >= min_size

\* a bounding-box crop with a short side below min_size has been upscaled
C1_Witness ==
    /\ Returned
    /\ metadata.crop_method = "bounding_rect"
    /\ ShortOf(metadata.original_shape) < min_size
    /\ metadata.final_shape # metadata.original_shape

\* C2: resolution normalisation never downscales: no axis of final_shape is
\* below that of original_shape, and when the short side of the (post-crop)
\* image is >= min_size the image is left as it is, final_shape equals
\* original_shape and scale_factor is 1.0.
C2_NeverDownscales ==
    /\ AfterNormalize =>
          /\ image.h >= original_shape[1]
          /\ image.w >= original_shape[2]
          /\ ShortOf(original_shape) >= min_size =>
                /\ <<image.h, image.w>> = original_shape
                /\ ~Resized
                /\ scale_factor = <<1, 1>>
    /\ Returned =>
          /\ metadata.final_shape[1] >= metadata.original_shape[1]
          /\ metadata.final_shape[2] >= metadata.original_shape[2]
          /\ ShortOf(metadata.original_shape) >= min_size =>
                /\ metadata.final_shape = metadata.original_shape
                /\ metadata.scale_factor = 10000

\* a perspective crop larger than a positive min_size is returned unscaled
C2_Witness ==
    /\ Returned
    /\ metadata.crop_method = "perspective"
    /\ min_size > 0
    /\ ShortOf(metadata.original_shape) > min_size
    /\ metadata.final_shape = metadata.original_shape

\* C3: when the short side s of the (post-crop) image is < min_size, both
\* axes are resized by the one scale min_size / s, each to the ceiling of
\* d * scale (n - 1 <= d * min_size / s <= n, the double product lying above
\* an integer quotient or on it), and the new short side is min_size, or
\* min_size + 1 through that rounding.
C3_ResizeCeil ==
    (AfterNormalize /\ ShortOf(original_shape) < min_size) =>
        LET s == ShortOf(original_shape)
        IN  /\ Resized
            /\ scale_factor = <<min_size, s>>
            /\ (image.h - 1) * s <= original_shape[1] * min_size
            /\ original_shape[1] * min_size <= image.h * s
            /\ (image.w - 1) * s <= original_shape[2] * min_size
            /\ original_shape[2] * min_size <= image.w * s
            /\ ShortOf(<<image.h, image.w>>) \in {min_size, min_size + 1}

\* a resize whose long side is a proper ceiling and whose short side came
\* out one above min_size
C3_Witness ==
    /\ pc = "normalized"
    /\ Resized
    /\ ShortOf(<<image.h, image.w>>) = min_size + 1
    /\ (image.w * ShortOf(original_shape)) > original_shape[2] * min_size

\* no contour of the file has an area of at least 5% of h * w
NoCard == \A i \in DOMAIN raw.contours : 20 * raw.contours[i].area < raw.h * raw.w

\* C4: when the detector finds no contour, or none of area >= 5% of H*W,
\* detect_card_region returns the input image as it is with cropped = false
\* and crop_method = null, and the invocation does not raise.
C4_NoCardIsNotAnError ==
    /\ (AfterDetect /\ NoCard) =>
          /\ crop_info = [cropped |-> FALSE, crop_method |-> "None"]
          /\ image.view = [kind |-> "whole"]
          /\ pc = "detected" => (image.h = raw.h /\ image.w = raw.w /\ image.ops = <<>>)
          /\ Returned => (~metadata.cropped /\ metadata.crop_method = "None"
                          /\ metadata.original_shape = <<raw.h, raw.w>>)
    /\ pc = "raised" => ~raw.decodable

\* contours were found, all of them below 5%, and the call returned uncropped
C4_Witness ==
    /\ Returned
    /\ Len(raw.contours) = 2
    /\ NoCard
    /\ ~metadata.cropped

\* C5: in every returned metadata, cropped = true exactly when crop_method is
\* "perspective" or "bounding_rect", cropped = false exactly when it is null,
\* and no other crop_method occurs.
C5_CropTag ==
    /\ AfterDetect =>
          /\ crop_info.crop_method \in {"perspective", "bounding_rect", "None"}
          /\ crop_info.cropped <=> crop_info.crop_method \in {"perspective", "bounding_rect"}
    /\ Returned =>
          /\ metadata.crop_method \in {"perspective", "bounding_rect", "None"}
          /\ metadata.cropped <=> metadata.crop_method \in {"perspective", "bounding_rect"}
          /\ ~metadata.cropped <=> metadata.crop_method = "None"

\* the fallback crop taken after a candidate of sufficient area was rejected
C5_Witness ==
    /\ Returned
    /\ metadata.cropped
    /\ metadata.crop_method = "bounding_rect"
    /\ \E k \in DOMAIN log : log[k].verdict = "aspect"

\* C6: every returned metadata has exactly the fields cropped, crop_method,
\* scale_factor, original_shape, final_shape and min_size, and its min_size
\* is the min_size argument of the call.
C6_MetadataFields ==
    Returned =>
        /\ DOMAIN metadata = {"cropped", "crop_method", "scale_factor",
                              "original_shape", "final_shape", "min_size"}
        /\ metadata.min_size = min_size

\* a call with min_size = 1000 on an uncropped image returned its metadata
C6_Witness ==
    /\ Returned
    /\ min_size = 1000
    /\ metadata.min_size = 1000
    /\ ~metadata.cropped

SumOf(p) == p[1] + p[2]

\* C8: in every result of _order_points the corner placed at TL has the
\* minimal x + y and the corner placed at BR the maximal x + y of the four
\* input corners; so has every quadrilateral detect_card_region examines.
C8_CornerSums ==
    /\ op_rect # <<>> =>
          /\ \E i \in 1..4 : op_rect[1] = op_pts[i]
          /\ \E i \in 1..4 : op_rect[3] = op_pts[i]
          /\ \A i \in 1..4 : SumOf(op_rect[1]) <= SumOf(op_pts[i])
          /\ \A i \in 1..4 : SumOf(op_rect[3]) >= SumOf(op_pts[i])
    /\ \A k \in DOMAIN log :
          log[k].rect # <<>> =>
              LET c   == raw.contours[log[k].index]
                  pts == IF Len(c.approx) = 4 THEN c.approx ELSE c.box
              IN  \A i \in 1..4 : /\ SumOf(log[k].rect[1]) <= SumOf(pts[i])
                                  /\ SumOf(log[k].rect[3]) >= SumOf(pts[i])

\* four points with three different sums were ordered, the extremes not first
C8_Witness ==
    /\ op_rect # <<>>
    /\ SumOf(op_rect[1]) < SumOf(op_pts[1])
    /\ SumOf(op_pts[1]) < SumOf(op_rect[3])
    /\ op_rect[1] # op_pts[1]

\* C9 (scenario B): a 500 x 500 image without contour and min_size = 720
\* gives cropped = false, crop_method = null, scale_factor = 1.44,
\* original_shape = [500, 500] and final_shape = [720, 720].
C9_ScenarioB ==
    (/\ Returned
     /\ raw.h = 500 /\ raw.w = 500
     /\ raw.contours = <<>>
     /\ min_size = 720) =>
        metadata = [cropped |-> FALSE, crop_method |-> "None",
                    scale_factor |-> 14400,
                    original_shape |-> <<500, 500>>,
                    final_shape |-> <<720, 720>>,
                    min_size |-> 720]

C9_Witness ==
    /\ Returned
    /\ raw.h = 500 /\ raw.w = 500
    /\ raw.contours = <<>>
    /\ min_size = 720
    /\ image.ops = <<"resize", "denoise", "clahe", "unsharp", "gamma">>

\* the largest contour of the file is an axis-aligned rectangle of aspect 1.6
\* that covers 40% of the frame
LargestIsCard ==
    /\ raw.contours # <<>>
    /\ \E i \in DOMAIN raw.contours :
          LET c   == raw.contours[i]
              pts == IF Len(c.approx) = 4 THEN c.approx ELSE c.box
              b   == c.brect
          IN  /\ \A j \in DOMAIN raw.contours : c.area >= raw.contours[j].area
              /\ \A j \in DOMAIN raw.contours : j < i => raw.contours[j].area < c.area
              /\ 10 * c.area = 4 * raw.h * raw.w
              /\ 5 * b.bw = 8 * b.bh
              /\ {pts[k] : k \in 1..4} =
                    {<<x, y>> : x \in {b.x, b.x + b.bw - 1}, y \in {b.y, b.y + b.bh - 1}}

\* C10 (scenario A): on a 3000 x 2000 image whose largest contour is an
\* axis-aligned rectangle of aspect 1.6 covering 40% of the frame the result
\* is cropped = true, crop_method = "perspective", final short side >= 720.
C10_ScenarioA ==
    (/\ Returned
     /\ raw.h = 2000 /\ raw.w = 3000
     /\ LargestIsCard) =>
        /\ metadata.cropped
        /\ metadata.crop_method = "perspective"
        /\ metadata.final_shape[1] >= 720
        /\ metadata.final_shape[2] >= 720

\* scenario A with a second, smaller contour and the default min_size
C10_Witness ==
    /\ Returned
    /\ raw.h = 2000 /\ raw.w = 3000
    /\ LargestIsCard
    /\ Len(raw.contours) = 2
    /\ min_size = 720
    /\ metadata.original_shape = <<1224, 1959>>

\* the nearest integer to 255 * (i/255)^(1/1.1): floor(2v) rounded up to even, halved
Rounded(i) == (FloorScaled(i, 2) + 1) \div 2

\* C11: for gamma = 1.1 every entry of the lookup table is the closed form
\* rounded to the nearest integer, table[i] = round(255 * (i/255)^(1/1.1)),
\* and lies in 0..255
C11_RoundedTable ==
    lut_out # <<>> =>
        /\ lut_out[1] = Rounded(lut_in)
        /\ lut_out[1] \in 0..255

\* what the table holds instead: the closed form with its fraction dropped
C11_TruncatedTable ==
    lut_out # <<>> =>
        /\ lut_out[1] \in 0..255
        /\ BigLeq(PowerTable[lut_out[1]], ScaledPower(lut_in, 1))
        /\ lut_out[1] < 255 => ~BigLeq(PowerTable[lut_out[1] + 1], ScaledPower(lut_in, 1))
        /\ lut_out[1] \in {Rounded(lut_in), Rounded(lut_in) - 1}

\* x - y of a point
XMinusY(p) == p[1] - p[2]

\* C14 as stated: _order_points places at TR the input point with the
\* minimal x - y and at BL the input point with the maximal x - y.
C14_MinimalAtTopRight ==
    op_rect # <<>> =>
        /\ \E i \in 1..4 : op_rect[2] = op_pts[i]
        /\ \E i \in 1..4 : op_rect[4] = op_pts[i]
        /\ \A i \in 1..4 : XMinusY(op_rect[2]) <= XMinusY(op_pts[i])
        /\ \A i \in 1..4 : XMinusY(op_rect[4]) >= XMinusY(op_pts[i])

\* C14 amended: _order_points places at TR the first input point with the
\* maximal x - y (the minimal y - x) and at BL the first input point with
\* the minimal x - y (the maximal y - x).
C14_MaximalAtTopRight ==
    op_rect # <<>> =>
        /\ \E i \in 1..4 :
              /\ op_rect[2] = op_pts[i]
              /\ \A j \in 1..4 : XMinusY(op_pts[i]) >= XMinusY(op_pts[j])
              /\ \A j \in 1..(i - 1) : XMinusY(op_pts[j]) < XMinusY(op_pts[i])
        /\ \E i \in 1..4 :
              /\ op_rect[4] = op_pts[i]
              /\ \A j \in 1..4 : XMinusY(op_pts[i]) <= XMinusY(op_pts[j])
              /\ \A j \in 1..(i - 1) : XMinusY(op_pts[j]) > XMinusY(op_pts[i])

\* the corners of an upright square, listed from the bottom-left one, were
\* ordered: TR is the corner (2, 0), where x - y is largest
C14_Witness ==
    /\ op_pts = << <<0, 2>>, <<0, 0>>, <<2, 0>>, <<2, 2>> >>
    /\ op_rect = << <<0, 0>>, <<2, 0>>, <<2, 2>>, <<0, 2>> >>

Perspective == AfterDetect /\ crop_info.crop_method = "perspective"

\* the last pass of the loop
LastPass == log[Len(log)]

Examined(j) == \E k \in DOMAIN log : log[k].index = j

\* C15: contours are examined in descending area; every pass but the last
\* rejects its contour; the perspective crop is made from the contour of the
\* last pass, which is the first accepted one; every contour that was not
\* examined comes after the accepted one in that order.
C15_GreedyLargestFirst ==
    AfterDetect =>
        /\ \A k \in DOMAIN log :
              /\ log[k].index \in DOMAIN raw.contours
              /\ log[k].area = raw.contours[log[k].index].area
        /\ \A k, l \in DOMAIN log : k < l =>
              /\ log[k].index # log[l].index
              /\ log[k].area >= log[l].area
              /\ log[k].area = log[l].area => log[k].index < log[l].index
              /\ log[k].verdict # "accepted"
        /\ Perspective <=> (log # <<>> /\ LastPass.verdict = "accepted")
        /\ Perspective => image.view.rect = LastPass.rect
        /\ \A j \in DOMAIN raw.contours : ~Examined(j) =>
              /\ Perspective
              /\ raw.contours[j].area <= LastPass.area
              /\ raw.contours[j].area = LastPass.area => LastPass.index < j

\* the larger contour, listed second, was examined first and rejected; the
\* smaller one was accepted
C15_Witness ==
    /\ Perspective
    /\ Len(log) = 2
    /\ log[1].index = 2
    /\ log[1].verdict = "aspect"
    /\ log[1].area > log[2].area

\* w = int(sqrt(d2))
IsIntegerPart(w, d2) == w * w <= d2 /\ d2 < (w + 1) * (w + 1)

LongestOf(d2a, d2b) == IF d2a >= d2b THEN d2a ELSE d2b

\* the squared lengths of the longer horizontal and the longer vertical
\* edge of an ordered quadrilateral
WidthSquared(r) == LongestOf(Dist2(r[2], r[1]), Dist2(r[3], r[4]))
HeightSquared(r) == LongestOf(Dist2(r[4], r[1]), Dist2(r[3], r[2]))

IsLargest(j) ==
    /\ j \in DOMAIN raw.contours
    /\ \A i \in DOMAIN raw.contours : raw.contours[i].area <= raw.contours[j].area
    /\ \A i \in 1..(j - 1) : raw.contours[i].area < raw.contours[j].area

\* C17: when contours were found and none passed the perspective checks,
\* the result is the bounding box of the largest contour, tagged
\* cropped = true / "bounding_rect", if that contour's area is at least
\* 0.05 * H * W, and else the whole original image with cropped = false;
\* the call does not raise.
C17_FallbackToBoundingBox ==
    (AfterDetect /\ raw.contours # <<>> /\ ~Perspective) =>
        /\ pc # "raised"
        /\ \A k \in DOMAIN log : log[k].verdict # "accepted"
        /\ \A j \in DOMAIN raw.contours : IsLargest(j) =>
              LET c == raw.contours[j]
              IN  IF 20 * c.area >= raw.h * raw.w
                  THEN /\ crop_info = [cropped |-> TRUE, crop_method |-> "bounding_rect"]
                       /\ image.view = [kind |-> "slice", x |-> c.brect.x, y |-> c.brect.y,
                                        bw |-> c.brect.bw, bh |-> c.brect.bh]
                       /\ pc = "detected" => image.h = c.brect.bh /\ image.w = c.brect.bw
                  ELSE /\ crop_info = [cropped |-> FALSE, crop_method |-> "None"]
                       /\ image.view = [kind |-> "whole"]
                       /\ pc = "detected" => image.h = raw.h /\ image.w = raw.w

\* two contours failed the size and aspect checks; the larger one, listed
\* second, gave the bounding box
C17_Witness ==
    /\ pc = "detected"
    /\ Len(log) = 2
    /\ log[1].verdict = "aspect"
    /\ log[2].verdict = "too_small"
    /\ IsLargest(2)
    /\ crop_info.crop_method = "bounding_rect"
    /\ image.h = raw.contours[2].brect.bh

\* twice the signed area of the triangle a, b, c
Cross(a, b, c) == (b[1] - a[1]) * (c[2] - a[2]) - (b[2] - a[2]) * (c[1] - a[1])

\* twice the signed area of the quadrilateral r
Shoelace(r) ==
    (r[1][1] * r[2][2] - r[2][1] * r[1][2]) + (r[2][1] * r[3][2] - r[3][1] * r[2][2])
    + (r[3][1] * r[4][2] - r[4][1] * r[3][2]) + (r[4][1] * r[1][2] - r[1][1] * r[4][2])

\* C18: every quadrilateral that reaches the perspective transform is
\* non-degenerate: its corners TL, TR, BR, BL are pairwise distinct, no three
\* of them are collinear and its area is positive.
C18_NonDegenerate ==
    Perspective =>
        LET r == image.view.rect
        IN  /\ \A i, j \in 1..4 : i # j => r[i] # r[j]
            /\ \A i, j, k \in 1..4 : (i < j /\ j < k) => Cross(r[i], r[j], r[k]) # 0
            /\ Shoelace(r) # 0

\* C19 as stated: the perspective crop is width x height pixels with width
\* and height equal to the Euclidean lengths max(|TR-TL|, |BR-BL|) and
\* max(|BL-TL|, |BR-TR|), the corners go to (0,0), (width-1,0),
\* (width-1,height-1), (0,height-1), and original_shape is [height, width].
C19_ExactLengths ==
    (Perspective /\ AfterNormalize) =>
        LET r  == image.view.rect
            ht == original_shape[1]
            wd == original_shape[2]
        IN  /\ wd * wd = WidthSquared(r)
            /\ ht * ht = HeightSquared(r)
            /\ image.view.dst = << <<0, 0>>, <<wd - 1, 0>>, <<wd - 1, ht - 1>>, <<0, ht - 1>> >>

\* C19 amended: width and height are those lengths truncated to integers
\* (int(max(...))); the crop is exactly width x height pixels, the corners go
\* to (0,0), (width-1,0), (width-1,height-1), (0,height-1), and
\* original_shape is [height, width].
C19_TruncatedLengths ==
    Perspective =>
        LET r == image.view.rect
            d == image.view.dst
        IN  /\ d[1] = <<0, 0>>
            /\ d[2][2] = 0 /\ d[4][1] = 0
            /\ d[3] = << d[2][1], d[4][2] >>
            /\ IsIntegerPart(d[2][1] + 1, WidthSquared(r))
            /\ IsIntegerPart(d[4][2] + 1, HeightSquared(r))
            /\ pc = "detected" => image.w = d[2][1] + 1 /\ image.h = d[4][2] + 1
            /\ AfterNormalize => original_shape = << d[4][2] + 1, d[2][1] + 1 >>

\* a tilted quadrilateral with edges of length 412.31 and 206.15 was warped
\* to 412 x 206 pixels
C19_Witness ==
    /\ Perspective
    /\ AfterNormalize
    /\ WidthSquared(image.view.rect) = 170000
    /\ original_shape = <<206, 412>>

\* the enhancement stages, in the order of the code
Enhancements == << "denoise", "clahe", "unsharp", "gamma" >>

\* how many of them have run at each position
EnhancementsDone ==
    CASE pc = "normalized" -> 0
      [] pc = "denoised"   -> 1
      [] pc = "equalized"  -> 2
      [] pc = "sharpened"  -> 3
      [] OTHER             -> 4

\* C20: in every run the stages execute in the order detection/crop,
\* resolution normalisation, denoise, CLAHE, unsharp mask, gamma: nothing
\* is applied to the image before the crop decision is made, the resize (if
\* any) comes first, and after it exactly the enhancement stages run so far,
\* each once and in order, whatever the crop outcome and the resize.
C20_FixedStageOrder ==
    /\ pc = "opened" => image.ops = <<>> /\ crop_info = Unset
    /\ pc = "detected" => image.ops = <<>> /\ crop_info # Unset /\ original_shape = <<>>
    /\ AfterNormalize =>
          /\ crop_info # Unset
          /\ original_shape # <<>>
          /\ image.ops =
                (IF ShortOf(original_shape) < min_size THEN << "resize" >> ELSE <<>>)
                \o SubSeq(Enhancements, 1, EnhancementsDone)

\* a perspective crop that was resized went through all four stages
C20_Witness ==
    /\ Returned
    /\ crop_info.crop_method = "perspective"
    /\ image.ops = << "resize", "denoise", "clahe", "unsharp", "gamma" >>

MainRuns == m_pc # "idle"

\* C12: when cv2.imwrite reports failure for an image, the run has ended
\* with a RuntimeError whose message names the destination of that image;
\* nothing was uploaded to or recorded in Supabase for it, it has no
\* manifest entry and no output file, no manifest was written, and
\* preprocess_image was called on no later image.
C12_WriteFailureIsFatal ==
    MainRuns =>
        \A d \in disk.failed :
            /\ m_pc = "ended"
            /\ outcome = [kind |-> "RuntimeError", message |-> d]
            /\ idx \in DOMAIN image_paths
            /\ d = [stem |-> image_paths[idx].stem, suffix |-> image_paths[idx].suffix]
            /\ m_calls = SubSeq(image_paths, 1, idx)
            /\ \A k \in DOMAIN supabase :
                  supabase[k].op # "ensure_project" => supabase[k].path # image_paths[idx]
            /\ \A k \in DOMAIN manifest_entries :
                  manifest_entries[k].source_path # image_paths[idx]
            /\ \A f \in disk.files : f.from # image_paths[idx]
            /\ ~disk.manifest_written

\* in a run that records to Supabase the first image went through and the
\* write of the second of three failed
C12_Witness ==
    /\ MainRuns
    /\ disk.failed # {}
    /\ repo
    /\ idx = 2
    /\ Len(image_paths) = 3
    /\ Len(manifest_entries) = 1

\* C13: with --dry-run main writes nothing: the output directory is not
\* made, preprocess_image is not called, no image file and no manifest is
\* written and no Supabase operation is made; the loop only walks over the
\* collected paths.
C13_DryRunWritesNothing ==
    (MainRuns /\ args.dry_run) =>
        /\ disk = [output_dir |-> FALSE, files |-> {}, failed |-> {}, manifest |-> <<>>,
                   manifest_written |-> FALSE]
        /\ m_calls = <<>>
        /\ supabase = <<>>
        /\ manifest_entries = <<>>
        /\ ~repo
        /\ m_pc \notin { "upload_source", "record_source", "upload_processed",
                         "record_processed", "append" }
        /\ outcome = [kind |-> "exit", code |-> 0] => idx = Len(image_paths) + 1

\* a dry run over three collected paths ended normally
C13_Witness ==
    /\ MainRuns
    /\ args.dry_run
    /\ Len(image_paths) = 3
    /\ outcome = [kind |-> "exit", code |-> 0]

InChain == pc \in { "normalized", "denoised", "equalized", "sharpened", "corrected" }

\* C21: from resolution normalisation on, no stage of the enhancement chain
\* raises or changes the height or the width of the image, on the first pass
\* and on every pass over its own output; final_shape is the shape the
\* image has then; the only call that raises is one whose file cannot be
\* decoded.
C21_ChainKeepsDimensions ==
    [][ /\ InChain =>
              /\ pc' # "raised"
              /\ image'.h = image.h
              /\ image'.w = image.w
              /\ image'.fmt = image.fmt
        /\ (pc = "corrected" /\ pc' = "returned") =>
              metadata'.final_shape = << image.h, image.w >>
        /\ (pc = "returned" /\ pc' = "normalized") => image' = image
        /\ (pc # "raised" /\ pc' = "raised") => ~raw'.decodable
      ]_vars

\* the chain ran twice over a resized perspective crop and returned
C21_Witness ==
    /\ Returned
    /\ CountOf("gamma", image.ops) = 2
    /\ CountOf("denoise", image.ops) = 2
    /\ Resized
    /\ crop_info.crop_method = "perspective"
    /\ metadata.final_shape = << image.h, image.w >>

\* C22: the metadata field original_shape is the [H, W] of the raw input
\* image, whatever the crop outcome.
C22_OriginalShapeIsRawShape ==
    Returned => metadata.original_shape = << raw.h, raw.w >>

\* what the code records: the shape after the crop, before the resize; it
\* is the raw shape exactly when nothing was cropped
C22_OriginalShapeIsShapeAfterCrop ==
    Returned =>
        /\ ~metadata.cropped => metadata.original_shape = << raw.h, raw.w >>
        /\ metadata.crop_method = "perspective" =>
              metadata.original_shape = << LastPass.height, LastPass.width >>
        /\ metadata.crop_method = "bounding_rect" =>
              metadata.original_shape = << image.view.bh, image.view.bw >>

\* C28 as stated: on both axes final_shape[i] is the ceiling of
\* original_shape[i] times the stored (4-decimal) scale_factor; without a
\* resize final_shape = original_shape and scale_factor = 1.0.
C28_CeilOfStoredScale ==
    Returned =>
        /\ \A i \in 1..2 :
              metadata.final_shape[i] =
                 CeilDiv(metadata.original_shape[i] * metadata.scale_factor, 10000)
        /\ ~Resized => /\ metadata.final_shape = metadata.original_shape
                       /\ metadata.scale_factor = 10000

\* C28 amended: final_shape is computed from the unrounded scale, so it
\* agrees with original_shape[i] * scale_factor only up to the rounding of
\* the stored factor: -0.00005 * original_shape[i] <= final_shape[i] -
\* original_shape[i] * scale_factor <= 1 + 0.00005 * original_shape[i];
\* without a resize final_shape = original_shape and scale_factor = 1.0.
C28_WithinRoundingOfScale ==
    Returned =>
        /\ \A i \in 1..2 :
              LET f == 10000 * metadata.final_shape[i]
                  p == metadata.original_shape[i] * metadata.scale_factor
              IN  /\ 2 * (p - f) <= metadata.original_shape[i]
                  /\ 2 * (f - p) <= 20000 + metadata.original_shape[i]
        /\ ~Resized => /\ metadata.final_shape = metadata.original_shape
                       /\ metadata.scale_factor = 10000

\* a 720 x 1280 image resized to 1000 x 1778 with scale_factor 1.3889:
\* 720 * 1.3889 = 1000.008, whose ceiling is 1001
C28_Witness ==
    /\ Returned
    /\ metadata.original_shape = << 720, 1280 >>
    /\ metadata.final_shape = << 1000, 1778 >>
    /\ metadata.scale_factor = 13889

\* C25: with --record-to-db together with --dry-run, or --record-to-db
\* without --user-id, the run ends with exit status 1 (an uncaught
\* FileNotFoundError for a bad input also gives status 1) and has no side
\* effect: no output directory, no image processed or written, no Supabase
\* client made or called.
C25_InvalidFlagsNoSideEffect ==
    (MainRuns /\ args.record_to_db /\ (args.dry_run \/ ~args.user_id)) =>
        /\ disk = [output_dir |-> FALSE, files |-> {}, failed |-> {}, manifest |-> <<>>,
                   manifest_written |-> FALSE]
        /\ m_calls = <<>>
        /\ supabase = <<>>
        /\ ~repo
        /\ m_pc = "ended" =>
              outcome \in { [kind |-> "exit", code |-> 1],
                            [kind |-> "FileNotFoundError", message |-> <<>>] }

\* what holds of the code: nothing is processed, written or sent, but
\* without --user-id the output directory has been made by then
C25_InvalidFlagsProcessNothing ==
    (MainRuns /\ args.record_to_db /\ (args.dry_run \/ ~args.user_id)) =>
        /\ disk.files = {} /\ ~disk.manifest_written
        /\ m_calls = <<>>
        /\ supabase = <<>>
        /\ ~repo
        /\ disk.output_dir => (~args.dry_run /\ ~args.user_id)

\* the operations of the log made for the path p, in order
RECURSIVE OpsFor(_, _)
OpsFor(p, ops) ==
    IF ops = <<>> THEN <<>>
    ELSE (IF Head(ops).op # "ensure_project" /\ Head(ops).path = p
          THEN << Head(ops).op >> ELSE <<>>) \o OpsFor(p, Tail(ops))

FourOperations ==
    << "upload_source_file", "upsert_source_image", "upload_processed_file",
       "upsert_processed_image" >>

\* C26: in record-to-db mode the log of Supabase operations is the four
\* operations upload original, upsert source, upload processed, upsert
\* processed of each image in turn, in the order of the images, made only
\* after the image's processed file was written; the k-th manifest entry is
\* that of the k-th image and exists only when all four of its operations
\* were made; a failed operation ends the run with exit status 1, and
\* then the manifest file is not written.
C26_RecordOrder ==
    (MainRuns /\ repo) =>
        /\ supabase[1] = [op |-> "ensure_project"]
        /\ \A k \in 2..Len(supabase) :
              LET n == ((k - 2) \div 4) + 1
              IN  /\ n \in DOMAIN image_paths
                  /\ n <= idx
                  /\ supabase[k] = [op |-> FourOperations[((k - 2) % 4) + 1],
                                    path |-> image_paths[n]]
                  /\ n \in DOMAIN m_calls
                  /\ n = idx => \E f \in disk.files : f.from = image_paths[n]
        /\ \A k \in DOMAIN manifest_entries :
              /\ manifest_entries[k].source_path = image_paths[k]
              /\ OpsFor(image_paths[k], supabase) = FourOperations
        /\ Len(manifest_entries) = (Len(supabase) - 1) \div 4
           \/ (m_pc = "append" /\ Len(manifest_entries) + 1 = (Len(supabase) - 1) \div 4)
        /\ outcome = [kind |-> "exit", code |-> 1] => ~disk.manifest_written
        /\ disk.manifest_written =>
              /\ outcome = [kind |-> "exit", code |-> 0]
              /\ disk.manifest = manifest_entries
              /\ Len(manifest_entries) = Len(image_paths)

\* the first image was uploaded and recorded; the upload of the second
\* processed file failed and the run ended with status 1
C26_Witness ==
    /\ MainRuns
    /\ repo
    /\ Len(supabase) = 7
    /\ Len(manifest_entries) = 1
    /\ outcome = [kind |-> "exit", code |-> 1]
    /\ ~disk.manifest_written

\* C27: after a run without --dry-run has ended normally over N collected
\* paths the output directory holds N processed files, one from each path.
C27_OneFilePerInput ==
    (MainRuns /\ ~args.dry_run /\ outcome = [kind |-> "exit", code |-> 0]) =>
        /\ Cardinality(disk.files) = Len(image_paths)
        /\ \A k \in DOMAIN image_paths : \E f \in disk.files : f.from = image_paths[k]

\* C30: for four pairwise distinct input points the result of
\* _order_points is a permutation of them: every input point is at exactly
\* one of the positions TL, TR, BR, BL.
C30_Permutation ==
    (/\ op_rect # <<>>
     /\ \A i, j \in 1..4 : i # j => op_pts[i] # op_pts[j]) =>
        \A i \in 1..4 : Cardinality({ k \in 1..4 : op_rect[k] = op_pts[i] }) = 1

\* what holds: every output is one of the input points
C30_OutputsAreInputs ==
    op_rect # <<>> => \A k \in 1..4 : \E i \in 1..4 : op_rect[k] = op_pts[i]

GeminiDone == g_pc = "done" /\ gemini_model

\* the retry loop of call_gemini_summary, as far as it has run
RetryLoop ==
    /\ Len(requests) <= max_retries
    /\ \A k \in 2..Len(requests) : requests[k - 1] = "ResourceExhausted"
    /\ \A k \in 1..Len(sleeps) :
          /\ k <= Len(requests)
          /\ requests[k] = "ResourceExhausted"
          /\ sleeps[k] = base_delay * (2 ^ (k - 1))
    /\ g_pc = "loop" => Len(sleeps) = Len(requests) /\ attempt = Len(requests)
    /\ GeminiDone =>
          /\ Len(requests) >= 1
          /\ Len(sleeps) = Len(requests) - 1
          /\ requests[Len(requests)] = "ResourceExhausted" =>
                /\ call_result.raised = "GeminiRateLimitError"
                /\ Len(requests) = max_retries
          /\ requests[Len(requests)] = "Exception" =>
                call_result.raised = "RuntimeError"
          /\ requests[Len(requests)] = "ok" =>
                \/ "returned" \in DOMAIN call_result
                \/ call_result.raised = "RuntimeError"

AllRateLimited ==
    /\ Len(requests) = max_retries
    /\ max_retries >= 1
    /\ \A k \in 1..Len(requests) : requests[k] = "ResourceExhausted"

LastRequest == IF requests = <<>> THEN "none" ELSE requests[Len(requests)]

UsableResponse ==
    /\ LastRequest = "ok"
    /\ response.text.kind = "json"
    /\ DOMAIN response.text.object.items # {}

\* C24: generate_summary_fields returns the heuristic extraction when there
\* is no model (no request is made) or when every one of the
\* MAX_GEMINI_RETRIES requests was rate-limited, and in no other case;
\* GeminiRateLimitError never leaves it; for a response whose text holds a
\* non-empty JSON object it returns a dict with exactly the eleven
\* SUMMARY_HEADERS keys and string values; a request error that is not a rate
\* limit, a missing response, an empty text and a text without a usable JSON
\* object end in RuntimeError, with no heuristic fallback.
C24_FallbackOnlyOnRateLimit ==
    g_pc = "done" =>
        /\ ~gemini_model => summary = Heuristic /\ requests = <<>>
        /\ (gemini_model /\ AllRateLimited) => summary = Heuristic
        /\ summary = Heuristic => ~gemini_model \/ AllRateLimited
        /\ "raised" \in DOMAIN summary => summary.raised # "GeminiRateLimitError"
        /\ (gemini_model /\ UsableResponse) =>
              /\ "returned" \in DOMAIN summary
              /\ DOMAIN summary.returned = Headers
              /\ Cardinality(DOMAIN summary.returned) = 11
              /\ \A key \in Headers : summary.returned[key] \in STRING
        /\ "returned" \in DOMAIN summary => gemini_model /\ UsableResponse
        /\ (gemini_model /\ (LastRequest \in {"Exception", "none"}
                             \/ (LastRequest = "ok" /\ ~UsableResponse))) =>
              /\ "raised" \in DOMAIN summary
              /\ summary.raised = "RuntimeError"

\* after one rate limit Gemini answers with an object that has three of the
\* headers (a null, a number) and a key that is no header
C24_Witness ==
    /\ g_pc = "done"
    /\ gemini_model
    /\ requests = << "ResourceExhausted", "ok" >>
    /\ response.text.kind = "json"
    /\ response.text.object = SparseObject
    /\ "returned" \in DOMAIN summary
    /\ summary.returned["name"] = "Sato"
    /\ summary.returned["Tel"] = ""
    /\ summary.returned["URL"] = "7"
    /\ summary.returned["other"] = ""

RECURSIVE Concatenated(_)
Concatenated(chunks) ==
    IF chunks = << >> THEN << >>
    ELSE Concatenated(SubSeq(chunks, 1, Len(chunks) - 1)) \o chunks[Len(chunks)]

\* C29: the insert requests of insert_result_fields hold at most 500 rows
\* each and, put one after the other, are the beginning of the flattened
\* row list; when the function returns there were ceil(n/500) requests and
\* they hold all n rows, each once and in order; row k carries result_id,
\* project_id, user_id and the key path of the k-th flattened entry; for a
\* payload that flattens to nothing no request is made.
C29_ChunkedInserts ==
    i_pc \in {"loop", "raised", "returned"} =>
        \A flattened \in { flatten_payload(i_args.payload) } :
        \A sent \in { Concatenated(inserts) } :
        LET n == Len(flattened)
        IN  /\ Len(rows) = n
            /\ \A k \in 1..n :
                  /\ rows[k].result_id = i_args.result_id
                  /\ rows[k].project_id = i_args.project_id
                  /\ rows[k].user_id = i_args.user_id
                  /\ rows[k].key_path = flattened[k][1]
            /\ \A c \in 1..Len(inserts) :
                  Len(inserts[c]) >= 1 /\ Len(inserts[c]) <= chunk_size
            /\ Len(sent) <= n
            /\ sent = SubSeq(rows, 1, Len(sent))
            /\ i_pc = "returned" =>
                  /\ Len(inserts) = CeilDiv(n, chunk_size)
                  /\ sent = rows
                  /\ n = 0 => inserts = << >>

\* a payload of 501 rows went out as a request of 500 rows and one of 1
C29_Witness ==
    /\ i_pc = "returned"
    /\ Len(rows) = chunk_size + 1
    /\ Len(inserts) = 2
    /\ Len(inserts[1]) = chunk_size
    /\ Len(inserts[2]) = 1
    /\ inserts[2][1].key_path = << KeySegment(Key("lines", 0)), IndexSegment(chunk_size - 1) >>

====
